---- MODULE Spec2Model ----
(***************************************************************************)
(* Model of the reliability layer of nameApp:                              *)
(*   src/src/queue-service.js      the store-backed queue (Redis lists)    *)
(*   src/src/bull-queue-service.js the managed job queue (Bull)            *)
(*   src/src/monday-api-service.js the budget check (calculateIsToComplex) *)
(*   src/unnamed/part_000          the HTTP handlers calling addToQueue    *)
(***************************************************************************)
EXTENDS Integers, Sequences, FiniteSets, TLC

(***************************************************************************)
(* Program constants (queue-service.js lines 14-19, 146).                  *)
(***************************************************************************)
MAX_RETRIES == 3
RETRY_DELAY == 5000
CONCURRENT_MESSAGES == 3
BATCH_SIZE == 10
CONCURRENT_BATCHES == 3
tenMinutesInMs == 10 * 60 * 1000

(***************************************************************************)
(* Bounds of the model.                                                    *)
(***************************************************************************)
\* number of produceMessage callers (each submits one raw item)
NProducers == 2
\* number of produceMessage callers where the clock advances
NTtlProducers == 1
\* number of jobs added to the Bull queue
NJobs == 2
\* the clock advances in steps of TickMs, at most MaxTicks times
MaxTicks == 3
TickMs == tenMinutesInMs \div 2
\* Date.now() when the service starts
StartTime == TickMs

Producers == 1..NProducers
JobIds == 1..NJobs
Streams == 1..CONCURRENT_BATCHES

(***************************************************************************)
(* Raw items handed to produceMessage: a string that is JSON or not, and   *)
(* the routing fields of the parsed document. "" stands for a missing or   *)
(* empty (falsy) field, "v" for a non-empty value.                         *)
(***************************************************************************)
ValidItem ==
  [json |-> TRUE, shortLivedToken |-> "v", inputFields |-> TRUE,
   boardId |-> "v", itemId |-> "v", text |-> "v"]

RawItems ==
  { ValidItem,
    [ValidItem EXCEPT !.json = FALSE],
    [ValidItem EXCEPT !.shortLivedToken = ""],
    [ValidItem EXCEPT !.inputFields = FALSE],
    [ValidItem EXCEPT !.boardId = ""],
    [ValidItem EXCEPT !.itemId = ""],
    [ValidItem EXCEPT !.text = ""] }

\* JavaScript truthiness of a string field and of a number
Truthy(v) == v # ""
TruthyNum(n) == n # 0

\* validateMessage (queue-service.js 80-90): JSON.parse throws -> false;
\* otherwise the conjunction of the fields' truthiness.
validateMessage(message) ==
  /\ message.json
  /\ Truthy(message.shortLivedToken)
  /\ message.inputFields
  /\ Truthy(message.boardId)
  /\ Truthy(message.itemId)
  /\ Truthy(message.text)

VARIABLES
  redisStatus,  \* redisClient.status: "ready", "reconnecting" or "end"
  mainQ,        \* the Redis list QUEUE_NAME, head first
  dlq,          \* the Redis list DLQ_NAME, head first
  now,          \* Date.now()
  prod,         \* per produceMessage call: its position and raw item
  cpc,          \* position of the consumer loop (processBatch)
  streamI,      \* per fetchBatch stream: the loop counter i
  batches,      \* per fetchBatch stream: the messages array
  chunks,       \* chunks of the cycle not started yet
  tasks,        \* the callbacks of the chunk being processed (Promise.all)
  sig,          \* shutdown handler: "none", "quitting", "exited"
  outcome,      \* history: per message id, how it last left the consumer
  fails,        \* history: per message id, number of processing failures
  jobs,         \* the Bull queue 'monday_queue': per job id, the job
  stat          \* the getQueueStatus call: its position and what it read

vars == <<redisStatus, mainQ, dlq, now, prod, cpc, streamI, batches, chunks,
          tasks, sig, outcome, fails, jobs, stat>>

\* the variables of queue-service.js other than the clock
listVars == <<redisStatus, mainQ, dlq, prod, cpc, streamI, batches, chunks,
              tasks, sig, outcome, fails, stat>>

(***************************************************************************)
(* Records.  A queue record is the JSON text of                            *)
(* {payload, metadata: {timestamp, retryCount}}; id names the payload and  *)
(* json tells whether JSON.parse accepts the text.                         *)
(***************************************************************************)
Message(id, timestamp, retryCount) ==
  [id |-> id, timestamp |-> timestamp, retryCount |-> retryCount, json |-> TRUE]

\* a record of the list that is no JSON text (written by another client)
Unparseable(id) ==
  [id |-> id, timestamp |-> 0, retryCount |-> 0, json |-> FALSE]

\* moveToDeadLetterQueue's dlqMessage (queue-service.js 95-99)
DlqMessage(message, error, timestamp) ==
  [originalMessage |-> message, error |-> error, timestamp |-> timestamp]

Ready == redisStatus = "ready"
Running == sig # "exited"

Flat(bs) == bs[1] \o bs[2] \o bs[3]

RECURSIVE Chunked(_)
\* queue-service.js 256-259: slices of BATCH_SIZE
Chunked(all) ==
  IF all = <<>> THEN <<>>
  ELSE IF Len(all) <= BATCH_SIZE THEN <<all>>
  ELSE <<SubSeq(all, 1, BATCH_SIZE)>> \o Chunked(SubSeq(all, BATCH_SIZE + 1, Len(all)))

\* the callback of chunk.map for one messageData, about to call processMessage
NewTask(messageData) ==
  [msg |-> messageData, pc |-> "process", retryCount |-> messageData.retryCount,
   delay |-> 0, error |-> "", result |-> "none", at |-> 0, called |-> FALSE,
   thrown |-> ""]

StartChunk(chunk) == [i \in 1..Len(chunk) |-> NewTask(chunk[i])]

\* a job id not added yet
NoJob ==
  [state |-> "none", data |-> [payload |-> ValidItem, timestamp |-> 0, retryCount |-> 0],
   attemptsMade |-> 0, delayedUntil |-> 0, asked |-> [kind |-> "none"], ret |-> "none"]

\* the state after the modules are loaded, the list QUEUE_NAME holding queue
\* (records left by an earlier run of the service) and ids naming the messages
InitWith(queue, ids) ==
  /\ redisStatus = "ready"
  /\ mainQ = queue
  /\ dlq = <<>>
  /\ now = StartTime
  /\ prod = [p \in Producers |-> [pc |-> "idle", raw |-> ValidItem]]
  /\ cpc = "sched"
  /\ streamI = [s \in Streams |-> 0]
  /\ batches = [s \in Streams |-> <<>>]
  /\ chunks = <<>>
  /\ tasks = <<>>
  /\ sig = "none"
  /\ outcome = [m \in ids |-> "none"]
  /\ fails = [m \in ids |-> 0]
  /\ jobs = [j \in JobIds |-> NoJob]
  /\ stat = [pc |-> "idle", queueLength |-> 0, dlqLength |-> 0]

Init == InitWith(<<>>, Producers)

\* one more message than CONCURRENT_MESSAGES is waiting in the main queue,
\* each admitted by produceMessage at StartTime
PoolSize == CONCURRENT_MESSAGES + 1

InitPool ==
  InitWith([i \in 1..PoolSize |-> Message(i, StartTime, 0)], 1..PoolSize)

(***************************************************************************)
(* The store connection (ioredis events, queue-service.js 22-55).          *)
(***************************************************************************)
RedisDown ==
  /\ Running
  /\ redisStatus = "ready"
  /\ redisStatus' = "reconnecting"
  /\ UNCHANGED <<jobs, stat>>
  /\ UNCHANGED <<mainQ, dlq, now, prod, cpc, streamI, batches, chunks, tasks,
                 sig, outcome, fails>>

RedisUp ==
  /\ Running
  /\ redisStatus = "reconnecting"
  /\ redisStatus' = "ready"
  /\ UNCHANGED <<jobs, stat>>
  /\ UNCHANGED <<mainQ, dlq, now, prod, cpc, streamI, batches, chunks, tasks,
                 sig, outcome, fails>>

Tick ==
  /\ Running
  /\ now < StartTime + MaxTicks * TickMs
  /\ now' = now + TickMs
  /\ UNCHANGED <<jobs, stat>>
  /\ UNCHANGED <<redisStatus, mainQ, dlq, prod, cpc, streamI, batches, chunks,
                 tasks, sig, outcome, fails>>

(***************************************************************************)
(* produceMessage (queue-service.js 110-139).                              *)
(***************************************************************************)
\* the rpush of line 128 issued twice
ProduceBodyTwice(p, raw) ==
  IF validateMessage(raw)
  THEN /\ mainQ' = mainQ \o <<Message(p, now, 0), Message(p, now, 0)>>
       /\ prod' = [prod EXCEPT ![p] = [pc |-> "returned", raw |-> raw]]
  ELSE /\ mainQ' = mainQ
       /\ prod' = [prod EXCEPT ![p] = [pc |-> "threw", raw |-> raw]]

\* lines 114-134, after ensureConnection returned: validate, stamp, rpush
ProduceBody(p, raw) ==
  IF validateMessage(raw)
  THEN /\ mainQ' = Append(mainQ, Message(p, now, 0))
       /\ prod' = [prod EXCEPT ![p] = [pc |-> "returned", raw |-> raw]]
  ELSE /\ mainQ' = mainQ
       /\ prod' = [prod EXCEPT ![p] = [pc |-> "threw", raw |-> raw]]

\* the call, up to ensureConnection's first status check (line 71)
ProduceCall(p, items) ==
  /\ Running
  /\ prod[p].pc = "idle"
  /\ \E raw \in items :
       IF Ready
       THEN ProduceBody(p, raw)
       ELSE /\ prod' = [prod EXCEPT ![p] = [pc |-> "wait", raw |-> raw]]
            /\ mainQ' = mainQ
  /\ UNCHANGED <<jobs, stat>>
  /\ UNCHANGED <<redisStatus, dlq, now, cpc, streamI, batches, chunks, tasks,
                 sig, outcome, fails>>

\* ensureConnection's second check after 1 s (lines 73-76)
ProduceRecheck(p) ==
  /\ Running
  /\ prod[p].pc = "wait"
  /\ IF Ready
     THEN ProduceBody(p, prod[p].raw)
     ELSE /\ prod' = [prod EXCEPT ![p].pc = "threw"]
          /\ mainQ' = mainQ
  /\ UNCHANGED <<jobs, stat>>
  /\ UNCHANGED <<redisStatus, dlq, now, cpc, streamI, batches, chunks, tasks,
                 sig, outcome, fails>>

(***************************************************************************)
(* processMessages: the consumer loop (queue-service.js 229-289).          *)
(***************************************************************************)
\* processBatch is entered (line 288, or the timer of line 285):
\* ensureConnection's first check, then the three fetchBatch streams start
StartCycle ==
  /\ Running
  /\ cpc = "sched"
  /\ cpc' = IF Ready THEN "fetch" ELSE "ensure"
  /\ streamI' = [s \in Streams |-> 0]
  /\ batches' = [s \in Streams |-> <<>>]
  /\ UNCHANGED <<jobs, stat>>
  /\ UNCHANGED <<redisStatus, mainQ, dlq, now, prod, chunks, tasks, sig,
                 outcome, fails>>

\* ensureConnection's second check (lines 73-76); its throw is caught at 281
EnsureRecheck ==
  /\ Running
  /\ cpc = "ensure"
  /\ cpc' = IF Ready THEN "fetch" ELSE "errpause"
  /\ UNCHANGED <<jobs, stat>>
  /\ UNCHANGED <<redisStatus, mainQ, dlq, now, prod, streamI, batches, chunks,
                 tasks, sig, outcome, fails>>

\* The streams send their blpops on the one connection redisClient (line 22),
\* which serves commands in the order sent: each stream sends its next blpop
\* when the previous one returned, so the blpops are served round-robin,
\* stream 1 first.  Served(s): the next blpop served is stream s's.
Served(s) ==
  /\ streamI[s] < BATCH_SIZE
  /\ \A o \in Streams : streamI[s] <= streamI[o]
  /\ \A o \in Streams : o < s => streamI[s] < streamI[o]

\* the blpop reading the head of the list without removing it
StreamPopPeek(s) ==
  /\ Running
  /\ cpc = "fetch"
  /\ Ready
  /\ Served(s)
  /\ mainQ # <<>>
  /\ batches' = [batches EXCEPT ![s] = Append(@, Head(mainQ))]
  /\ mainQ' = mainQ
  /\ streamI' = [streamI EXCEPT ![s] = @ + 1]
  /\ UNCHANGED <<jobs, stat>>
  /\ UNCHANGED <<redisStatus, dlq, now, prod, cpc, chunks, tasks, sig,
                 outcome, fails>>

\* one blpop of stream s that returns the head of the list (lines 233-236)
StreamPop(s) ==
  /\ Running
  /\ cpc = "fetch"
  /\ Ready
  /\ Served(s)
  /\ mainQ # <<>>
  /\ batches' = [batches EXCEPT ![s] = Append(@, Head(mainQ))]
  /\ mainQ' = Tail(mainQ)
  /\ streamI' = [streamI EXCEPT ![s] = @ + 1]
  /\ UNCHANGED <<jobs, stat>>
  /\ UNCHANGED <<redisStatus, dlq, now, prod, cpc, chunks, tasks, sig,
                 outcome, fails>>

\* one blpop of stream s that times out after 1 s on the empty list
StreamTimeout(s) ==
  /\ Running
  /\ cpc = "fetch"
  /\ Ready
  /\ Served(s)
  /\ mainQ = <<>>
  /\ streamI' = [streamI EXCEPT ![s] = @ + 1]
  /\ UNCHANGED <<jobs, stat>>
  /\ UNCHANGED <<redisStatus, mainQ, dlq, now, prod, cpc, batches, chunks,
                 tasks, sig, outcome, fails>>

MarkAll(f, ids, v) == [m \in DOMAIN f |-> IF m \in ids THEN v ELSE f[m]]

IdsOf(seq) == {seq[i].id : i \in DOMAIN seq}

\* a blpop rejects because the connection is lost: Promise.all (line 249)
\* rejects, the catch of line 281 logs, and the arrays already filled by the
\* streams are never read
FetchFail ==
  /\ Running
  /\ cpc = "fetch"
  /\ ~Ready
  /\ \E s \in Streams : streamI[s] < BATCH_SIZE
  /\ cpc' = "errpause"
  /\ outcome' = MarkAll(outcome, IdsOf(Flat(batches)), "fetchlost")
  /\ batches' = [s \in Streams |-> <<>>]
  /\ streamI' = [s \in Streams |-> 0]
  /\ UNCHANGED <<jobs, stat>>
  /\ UNCHANGED <<redisStatus, mainQ, dlq, now, prod, chunks, tasks, sig, fails>>

\* lines 249-262: all streams returned; flatten, chunk, start the first chunk
FetchDone ==
  /\ Running
  /\ cpc = "fetch"
  /\ \A s \in Streams : streamI[s] = BATCH_SIZE
  /\ LET allMessages == Flat(batches)
         cs == Chunked(allMessages)
     IN IF Len(allMessages) > 0
        THEN /\ tasks' = StartChunk(Head(cs))
             /\ chunks' = Tail(cs)
             /\ cpc' = "chunk"
        ELSE /\ tasks' = <<>>
             /\ chunks' = <<>>
             /\ cpc' = "sched"
  /\ batches' = [s \in Streams |-> <<>>]
  /\ streamI' = [s \in Streams |-> 0]
  /\ UNCHANGED <<jobs, stat>>
  /\ UNCHANGED <<redisStatus, mainQ, dlq, now, prod, sig, outcome, fails>>

(***************************************************************************)
(* processMessage (queue-service.js 141-202).                              *)
(***************************************************************************)
\* the age limit taken an hour instead of ten minutes
IsExpiredHour(messageTimestamp, currentTime) ==
  TruthyNum(messageTimestamp) /\ currentTime - messageTimestamp > 60 * 60 * 1000

\* line 149
IsExpired(messageTimestamp, currentTime) ==
  TruthyNum(messageTimestamp) /\ currentTime - messageTimestamp > tenMinutesInMs

\* the outcome: "expired" (line 154), "success" (line 197) or "threw" (200);
\* collaborator is what the downstream calls of lines 168-194 do
processMessage(messageData, currentTime, collaborator) ==
  IF IsExpired(messageData.timestamp, currentTime) THEN "expired"
  ELSE IF collaborator = "ok" THEN "success"
  ELSE "threw"

\* the message of the error a failing downstream call makes processMessage
\* throw (lines 168-194, rethrown at 200)
ProcessingError == "Failed to fetch column values"

\* the message of the SyntaxError JSON.parse throws (lines 143, 206)
ParseError == "Unexpected token in JSON"

\* the comparison of line 210 made strict
WithinRetriesStrict(retryCount) == retryCount < MAX_RETRIES

\* line 210
WithinRetries(retryCount) == retryCount <= MAX_RETRIES

\* the callback of lines 263-275 for task i: processMessage, and on a throw
\* the entry of retryMessage (lines 206-211, 220-221).  Text that is no
\* JSON makes JSON.parse throw in processMessage (line 143) and again in
\* retryMessage (line 206), whose catch hands it to moveToDeadLetterQueue
\* with that error (line 225).
TaskProcess(i) ==
  /\ Running
  /\ cpc = "chunk"
  /\ i \in DOMAIN tasks
  /\ tasks[i].pc = "process"
  /\ \E collaborator \in {"ok", "error"} :
       LET t == tasks[i]
           m == t.msg.id
           r == IF t.msg.json THEN processMessage(t.msg, now, collaborator) ELSE "threw"
           seen == [t EXCEPT !.result = r, !.at = now,
                             !.called = t.msg.json /\ ~IsExpired(t.msg.timestamp, now),
                             !.thrown = IF r # "threw" THEN ""
                                        ELSE IF t.msg.json THEN ProcessingError
                                        ELSE ParseError]
           retryCount == t.msg.retryCount + 1
       IN IF r = "threw"
          THEN /\ fails' = [fails EXCEPT ![m] = @ + 1]
               /\ outcome' = outcome
               /\ tasks' = [tasks EXCEPT ![i] =
                    IF ~t.msg.json
                    THEN [seen EXCEPT !.pc = "dlqstart", !.error = ParseError]
                    ELSE IF WithinRetries(retryCount)
                    THEN [seen EXCEPT !.pc = "delay", !.retryCount = retryCount,
                                      !.delay = RETRY_DELAY * retryCount]
                    ELSE [seen EXCEPT !.pc = "dlqstart", !.retryCount = retryCount,
                                      !.error = "Max retries exceeded"]]
          ELSE /\ fails' = fails
               /\ outcome' = [outcome EXCEPT ![m] = r]
               /\ tasks' = [tasks EXCEPT ![i] = [seen EXCEPT !.pc = "done"]]
  /\ UNCHANGED <<jobs, stat>>
  /\ UNCHANGED <<redisStatus, mainQ, dlq, now, prod, cpc, streamI, batches,
                 chunks, sig>>

\* the requeue as a push to the head of the list (lpush)
TaskRequeueHead(i) ==
  /\ Running
  /\ cpc = "chunk"
  /\ i \in DOMAIN tasks
  /\ tasks[i].pc = "delay"
  /\ LET t == tasks[i]
     IN IF Ready
        THEN /\ mainQ' = <<[t.msg EXCEPT !.retryCount = t.retryCount]>> \o mainQ
             /\ tasks' = [tasks EXCEPT ![i].pc = "done"]
             /\ outcome' = [outcome EXCEPT ![t.msg.id] = "requeued"]
        ELSE /\ mainQ' = mainQ
             /\ tasks' = [tasks EXCEPT ![i].pc = "dlqstart",
                                       ![i].error = "Connection is closed"]
             /\ outcome' = outcome
  /\ UNCHANGED <<jobs, stat>>
  /\ UNCHANGED <<redisStatus, dlq, now, prod, cpc, streamI, batches, chunks,
                 sig, fails>>

\* retryMessage after its delay (lines 212-219): rpush to the main queue; a
\* rejected rpush is caught at line 223 and handed to moveToDeadLetterQueue
TaskRequeue(i) ==
  /\ Running
  /\ cpc = "chunk"
  /\ i \in DOMAIN tasks
  /\ tasks[i].pc = "delay"
  /\ LET t == tasks[i]
     IN IF Ready
        THEN /\ mainQ' = Append(mainQ, [t.msg EXCEPT !.retryCount = t.retryCount])
             /\ tasks' = [tasks EXCEPT ![i].pc = "done"]
             /\ outcome' = [outcome EXCEPT ![t.msg.id] = "requeued"]
        ELSE /\ mainQ' = mainQ
             /\ tasks' = [tasks EXCEPT ![i].pc = "dlqstart",
                                       ![i].error = "Connection is closed"]
             /\ outcome' = outcome
  /\ UNCHANGED <<jobs, stat>>
  /\ UNCHANGED <<redisStatus, dlq, now, prod, cpc, streamI, batches, chunks,
                 sig, fails>>

(***************************************************************************)
(* moveToDeadLetterQueue (queue-service.js 92-108).                        *)
(***************************************************************************)
\* the dead-letter list holding the latest record only (set instead of rpush)
PushDlqReplace(i) ==
  /\ dlq' = <<DlqMessage(tasks[i].msg, tasks[i].error, now)>>
  /\ tasks' = [tasks EXCEPT ![i].pc = "done"]
  /\ outcome' = [outcome EXCEPT ![tasks[i].msg.id] = "deadletter"]

\* the record built from the message after the increment of line 207
PushDlqIncremented(i) ==
  /\ dlq' = Append(dlq, DlqMessage([tasks[i].msg EXCEPT !.retryCount = tasks[i].retryCount],
                                   tasks[i].error, now))
  /\ tasks' = [tasks EXCEPT ![i].pc = "done"]
  /\ outcome' = [outcome EXCEPT ![tasks[i].msg.id] = "deadletter"]

\* lines 95-104: the record of the message as it was popped, and the rpush
PushDlq(i) ==
  /\ dlq' = Append(dlq, DlqMessage(tasks[i].msg, tasks[i].error, now))
  /\ tasks' = [tasks EXCEPT ![i].pc = "done"]
  /\ outcome' = [outcome EXCEPT ![tasks[i].msg.id] = "deadletter"]

\* entry: ensureConnection's first check (line 71)
TaskDlqStart(i) ==
  /\ Running
  /\ cpc = "chunk"
  /\ i \in DOMAIN tasks
  /\ tasks[i].pc = "dlqstart"
  /\ IF Ready
     THEN PushDlq(i)
     ELSE /\ tasks' = [tasks EXCEPT ![i].pc = "dlqwait"]
          /\ UNCHANGED <<dlq, outcome>>
  /\ UNCHANGED <<jobs, stat>>
  /\ UNCHANGED <<redisStatus, mainQ, now, prod, cpc, streamI, batches, chunks,
                 sig, fails>>

\* moveToDeadLetterQueue without its catch: the throw of ensureConnection
\* rejects the callback, Promise.all (line 262) and the try of line 242
TaskDlqRecheckThrows(i) ==
  /\ Running
  /\ cpc = "chunk"
  /\ i \in DOMAIN tasks
  /\ tasks[i].pc = "dlqwait"
  /\ IF Ready
     THEN PushDlq(i) /\ UNCHANGED <<cpc, chunks>>
     ELSE /\ tasks' = <<>>
          /\ chunks' = <<>>
          /\ cpc' = "errpause"
          /\ outcome' = [outcome EXCEPT ![tasks[i].msg.id] = "dropped"]
          /\ dlq' = dlq
  /\ UNCHANGED <<jobs, stat>>
  /\ UNCHANGED <<redisStatus, mainQ, now, prod, streamI, batches, sig, fails>>

\* ensureConnection's second check (lines 73-76); its throw is caught and
\* logged at lines 105-107 and the message is in no list
TaskDlqRecheck(i) ==
  /\ Running
  /\ cpc = "chunk"
  /\ i \in DOMAIN tasks
  /\ tasks[i].pc = "dlqwait"
  /\ IF Ready
     THEN PushDlq(i)
     ELSE /\ tasks' = [tasks EXCEPT ![i].pc = "done"]
          /\ outcome' = [outcome EXCEPT ![tasks[i].msg.id] = "dropped"]
          /\ dlq' = dlq
  /\ UNCHANGED <<jobs, stat>>
  /\ UNCHANGED <<redisStatus, mainQ, now, prod, cpc, streamI, batches, chunks,
                 sig, fails>>

\* Promise.all of line 262 resolves; the pacing delay of line 278 starts
ChunkDone ==
  /\ Running
  /\ cpc = "chunk"
  /\ \A i \in DOMAIN tasks : tasks[i].pc = "done"
  /\ cpc' = "pace"
  /\ tasks' = <<>>
  /\ UNCHANGED <<jobs, stat>>
  /\ UNCHANGED <<redisStatus, mainQ, dlq, now, prod, streamI, batches, chunks,
                 sig, outcome, fails>>

\* the pacing delay elapsed: the next chunk, or the timer of line 285
PaceDone ==
  /\ Running
  /\ cpc = "pace"
  /\ IF chunks # <<>>
     THEN /\ tasks' = StartChunk(Head(chunks))
          /\ chunks' = Tail(chunks)
          /\ cpc' = "chunk"
     ELSE /\ cpc' = "sched"
          /\ UNCHANGED <<tasks, chunks>>
  /\ UNCHANGED <<jobs, stat>>
  /\ UNCHANGED <<redisStatus, mainQ, dlq, now, prod, streamI, batches, sig,
                 outcome, fails>>

\* the timer of line 285 set inside the try block: not reached from the catch
ErrPauseDoneHalts ==
  /\ Running
  /\ cpc = "errpause"
  /\ cpc' = "halted"
  /\ UNCHANGED <<jobs, stat>>
  /\ UNCHANGED <<redisStatus, mainQ, dlq, now, prod, streamI, batches, chunks,
                 tasks, sig, outcome, fails>>

\* the delay of the catch block (line 283) elapsed
ErrPauseDone ==
  /\ Running
  /\ cpc = "errpause"
  /\ cpc' = "sched"
  /\ UNCHANGED <<jobs, stat>>
  /\ UNCHANGED <<redisStatus, mainQ, dlq, now, prod, streamI, batches, chunks,
                 tasks, sig, outcome, fails>>

(***************************************************************************)
(* cleanup (queue-service.js 58-67).                                       *)
(***************************************************************************)
\* SIGTERM or SIGINT: redisClient.quit() is issued
Signal ==
  /\ sig = "none"
  /\ sig' = "quitting"
  /\ redisStatus' = "end"
  /\ UNCHANGED <<jobs, stat>>
  /\ UNCHANGED <<mainQ, dlq, now, prod, cpc, streamI, batches, chunks, tasks,
                 outcome, fails>>

\* whatever the process holds in memory when it exits
InFlight ==
  IdsOf(Flat(batches))
    \cup {tasks[i].msg.id : i \in {j \in DOMAIN tasks : tasks[j].pc # "done"}}
    \cup UNION {IdsOf(chunks[c]) : c \in DOMAIN chunks}

\* quit() returned: process.exit(0) (line 63)
Exit ==
  /\ sig = "quitting"
  /\ sig' = "exited"
  /\ outcome' = MarkAll(outcome, InFlight, "exitlost")
  /\ cpc' = "exited"
  /\ tasks' = <<>>
  /\ chunks' = <<>>
  /\ batches' = [s \in Streams |-> <<>>]
  /\ streamI' = [s \in Streams |-> 0]
  /\ UNCHANGED <<jobs, stat>>
  /\ UNCHANGED <<redisStatus, mainQ, dlq, now, prod, fails>>

(***************************************************************************)
(* getQueueStatus (queue-service.js 292-307).  The two llen commands are   *)
(* sent one after the other; pushes and pops may be served in between.     *)
(***************************************************************************)
\* the call, up to ensureConnection's first status check (line 71)
StatusCall ==
  /\ Running
  /\ stat.pc \in {"idle", "returned", "threw"}
  /\ stat' = [pc |-> IF Ready THEN "llenMain" ELSE "wait",
              queueLength |-> 0, dlqLength |-> 0]
  /\ UNCHANGED <<redisStatus, mainQ, dlq, now, prod, cpc, streamI, batches,
                 chunks, tasks, sig, outcome, fails, jobs>>

\* ensureConnection's second check (lines 73-76); its throw is rethrown at 305
StatusRecheck ==
  /\ Running
  /\ stat.pc = "wait"
  /\ stat' = [stat EXCEPT !.pc = IF Ready THEN "llenMain" ELSE "threw"]
  /\ UNCHANGED <<redisStatus, mainQ, dlq, now, prod, cpc, streamI, batches,
                 chunks, tasks, sig, outcome, fails, jobs>>

\* the first length read as a pop of the list
StatusLlenMainPop ==
  /\ Running
  /\ stat.pc = "llenMain"
  /\ Ready
  /\ stat' = [stat EXCEPT !.pc = "llenDlq", !.queueLength = Len(mainQ)]
  /\ mainQ' = IF mainQ = <<>> THEN mainQ ELSE Tail(mainQ)
  /\ UNCHANGED <<redisStatus, dlq, now, prod, cpc, streamI, batches,
                 chunks, tasks, sig, outcome, fails, jobs>>

\* line 295: llen of the main queue, served when the connection is ready
StatusLlenMain ==
  /\ Running
  /\ stat.pc = "llenMain"
  /\ Ready
  /\ stat' = [stat EXCEPT !.pc = "llenDlq", !.queueLength = Len(mainQ)]
  /\ UNCHANGED <<redisStatus, mainQ, dlq, now, prod, cpc, streamI, batches,
                 chunks, tasks, sig, outcome, fails, jobs>>

\* line 296: llen of the dead-letter queue, and the return of line 297
StatusLlenDlq ==
  /\ Running
  /\ stat.pc = "llenDlq"
  /\ Ready
  /\ stat' = [stat EXCEPT !.pc = "returned", !.dlqLength = Len(dlq)]
  /\ UNCHANGED <<redisStatus, mainQ, dlq, now, prod, cpc, streamI, batches,
                 chunks, tasks, sig, outcome, fails, jobs>>

\* an llen rejects because the connection is lost (caught and rethrown, 303)
StatusFail ==
  /\ Running
  /\ stat.pc \in {"llenMain", "llenDlq"}
  /\ ~Ready
  /\ stat' = [stat EXCEPT !.pc = "threw"]
  /\ UNCHANGED <<redisStatus, mainQ, dlq, now, prod, cpc, streamI, batches,
                 chunks, tasks, sig, outcome, fails, jobs>>

Status == StatusCall \/ StatusRecheck \/ StatusLlenMain \/ StatusLlenDlq \/ StatusFail

(***************************************************************************)
(* The budget check: calculateIsToComplex (monday-api-service.js 29-64).   *)
(* What mondayClient.api(complexityQuery) does is one of ApiResponses: it  *)
(* resolves with data, resolves with errors, or rejects.  An error message *)
(* is modelled as the set of phrases it contains.                          *)
(***************************************************************************)
ApiResponses ==
  { [kind |-> "data", before |-> 1000000, query |-> 5000000],
    [kind |-> "data", before |-> 999999, query |-> 5000000],
    [kind |-> "data", before |-> 1000000, query |-> 5000001],
    [kind |-> "errors", errors |-> "Complexity budget exhausted"],
    [kind |-> "reject", message |-> {"Not Authenticated"}],
    [kind |-> "reject", message |-> {"Invalid or expired token"}],
    [kind |-> "reject", message |-> {"socket hang up"}] }

\* the comparisons of line 51 including the marks themselves
OverBudgetInclusive(before, queryComplexity) ==
  before <= 1000000 \/ queryComplexity >= 5000000

\* line 51
OverBudget(before, queryComplexity) == before < 1000000 \/ queryComplexity > 5000000

\* [threw, message, value]: a rejection is rethrown (lines 60-63), errors
\* are thrown as `Failed to fetch complexity: ${errors}` (lines 46-48),
\* otherwise the comparison of line 51 is returned
calculateIsToComplex(response) ==
  CASE response.kind = "reject" ->
         [threw |-> TRUE, message |-> response.message, value |-> FALSE]
    [] response.kind = "errors" ->
         [threw |-> TRUE,
          message |-> {"Failed to fetch complexity: ", response.errors},
          value |-> FALSE]
    [] OTHER ->
         [threw |-> FALSE, message |-> {},
          value |-> OverBudget(response.before, response.query)]

(***************************************************************************)
(* The Bull queue (bull-queue-service.js).  A job is "waiting", "active"   *)
(* or "delayed" while the queue holds it; "completed", "failed" and        *)
(* "removed" jobs are deleted (removeOnComplete, removeOnFail, remove()).  *)
(***************************************************************************)
\* defaultJobOptions (lines 17-21) and the concurrency of queue.process (54)
attempts == 3
backoffDelay == 30000
concurrency == 15

Active == {j \in JobIds : jobs[j].state = "active"}

\* the bodies the HTTP handlers hand to addToQueue: express.json() has
\* parsed them, nothing else is checked (part_000 80-97, 150-157)
BodyItems == {r \in RawItems : r.json}

\* addToQueue (lines 134-143): queue.add(message), whatever the message
AddToQueue(j, items) ==
  /\ jobs[j].state = "none"
  /\ \E body \in items :
       jobs' = [jobs EXCEPT ![j] =
         [NoJob EXCEPT !.state = "waiting",
                       !.data = [payload |-> body, timestamp |-> now, retryCount |-> 0]]]
  /\ UNCHANGED <<listVars, now>>

\* a worker takes a waiting job, at most `concurrency` at a time (line 54)
BullTake(j) ==
  /\ jobs[j].state = "waiting"
  /\ Cardinality(Active) < concurrency
  /\ jobs' = [jobs EXCEPT ![j].state = "active", ![j].asked = [kind |-> "pending"],
                          ![j].ret = "none"]
  /\ UNCHANGED <<listVars, now>>

\* every failure of the budget check taken for an authentication error
IsAuthErrorAny(message) == message # {}

\* line 62
IsAuthError(message) ==
  "Not Authenticated" \in message \/ "Invalid or expired token" \in message

\* the deferral counted as a retry of the message
MoveToDelayedCounted(job, delay) ==
  [job EXCEPT !.state = "delayed", !.delayedUntil = now + delay, !.ret = "delayed",
              !.data = [@ EXCEPT !.retryCount = @ + 1]]

\* job.moveToDelayed(Date.now() + delay) and the return of lines 69 and 76:
\* the job leaves the active list for the delayed set, its data and its
\* attemptsMade as they were
MoveToDelayed(job, delay) ==
  [job EXCEPT !.state = "delayed", !.delayedUntil = now + delay, !.ret = "delayed"]

\* Bull's exponential backoff after the n-th failed attempt
RECURSIVE Pow2(_)
Pow2(n) == IF n = 0 THEN 1 ELSE 2 * Pow2(n - 1)

\* the handler throws (line 83): Bull counts a failed attempt, retries the
\* job after the backoff while attemptsMade < attempts, and fails it for
\* good otherwise (lines 17-23)
FailAttempt(job) ==
  LET made == job.attemptsMade + 1
  IN IF made < attempts
     THEN [job EXCEPT !.state = "delayed", !.attemptsMade = made,
                      !.delayedUntil = now + (Pow2(made) - 1) * backoffDelay,
                      !.ret = "threw"]
     ELSE [job EXCEPT !.state = "failed", !.attemptsMade = made, !.ret = "threw"]

\* job.remove() (line 63) of the job the handler is processing.  Bull
\* removes a job only if no worker holds its lock and rejects with 'Could
\* not remove job' otherwise; the handler's job is locked by its own worker.
\* removed = TRUE: the job is deleted and line 64 returns; removed = FALSE:
\* the rejection leaves the catch block of line 59 and is rethrown at 83.
RemoveJob(job, removed) ==
  IF removed
  THEN [job EXCEPT !.state = "removed", !.ret = "authfailed"]
  ELSE FailAttempt(job)

\* the handler up to line 77: the budget check and what follows from it
BullCheck(j) ==
  /\ jobs[j].state = "active"
  /\ jobs[j].asked.kind = "pending"
  /\ \E response \in ApiResponses, removed \in BOOLEAN :
       LET isToComplex == calculateIsToComplex(response)
           job == [jobs[j] EXCEPT !.asked = response]
       IN jobs' = [jobs EXCEPT ![j] =
            IF isToComplex.threw
            THEN IF IsAuthError(isToComplex.message)
                 THEN RemoveJob(job, removed)
                 ELSE MoveToDelayed(job, 60000)
            ELSE IF isToComplex.value
                 THEN MoveToDelayed(job, 30000)
                 ELSE job]
  /\ UNCHANGED <<listVars, now>>

\* lines 79-84: processMessage on the job's data; its result completes the
\* job, its throw fails the attempt.  A payload without inputFields makes
\* the destructuring of queue-service.js line 159 throw.
BullProcess(j) ==
  /\ jobs[j].state = "active"
  /\ jobs[j].asked.kind = "data"
  /\ \E collaborator \in {"ok", "error"} :
       LET job == jobs[j]
           r == processMessage(job.data, now,
                  IF job.data.payload.inputFields THEN collaborator ELSE "error")
       IN jobs' = [jobs EXCEPT ![j] =
            IF r = "threw"
            THEN FailAttempt(job)
            ELSE [job EXCEPT !.state = "completed", !.ret = r]]
  /\ UNCHANGED <<listVars, now>>

\* the delay of a delayed job elapsed: it waits for a worker again
BullPromote(j) ==
  /\ jobs[j].state = "delayed"
  /\ jobs' = [jobs EXCEPT ![j].state = "waiting", ![j].delayedUntil = 0]
  /\ UNCHANGED <<listVars, now>>

\* the items the Bull specification admits
BullItems == { ValidItem, [ValidItem EXCEPT !.inputFields = FALSE] }

NextBull ==
  \/ \E j \in JobIds : AddToQueue(j, BullItems)
  \/ \E j \in JobIds : BullTake(j)
  \/ \E j \in JobIds : BullCheck(j)
  \/ \E j \in JobIds : BullProcess(j)
  \/ \E j \in JobIds : BullPromote(j)

SpecBull == Init /\ [][NextBull]_vars

\* the Bull queue while the clock advances.  Bull's workers take every
\* waiting job, every handler runs to its end and every delay elapses: weak
\* fairness of each step of each job and of the clock.  The delays (30 s, 60 s, the backoff)
\* are shorter than a step of the clock.
NextBullTtl == NextBull \/ Tick

SpecBullLive ==
  /\ Init /\ [][NextBullTtl]_vars
  /\ WF_vars(Tick)
  /\ \A j \in JobIds :
       /\ WF_vars(BullTake(j))
       /\ WF_vars(BullCheck(j))
       /\ WF_vars(BullProcess(j))
       /\ WF_vars(BullPromote(j))

Task == 1..BATCH_SIZE

(***************************************************************************)
(* Specifications.  The actions are grouped by what drives them; each      *)
(* specification takes the groups its claims are about.                    *)
(***************************************************************************)
\* callers of produceMessage submitting well-formed items
Produce == \E p \in Producers : ProduceCall(p, {ValidItem})

\* callers of produceMessage submitting any raw item
ProduceAny == \E p \in Producers : ProduceCall(p, RawItems)

\* the consumer loop while the store answers
Consume ==
  \/ StartCycle
  \/ \E s \in Streams : StreamPop(s)
  \/ \E s \in Streams : StreamTimeout(s)
  \/ FetchDone
  \/ \E i \in Task : TaskProcess(i)
  \/ \E i \in Task : TaskRequeue(i)
  \/ \E i \in Task : TaskDlqStart(i)
  \/ ChunkDone
  \/ PaceDone

\* the steps that only a connection that is not ready enables
NotReady ==
  \/ \E p \in Producers : ProduceRecheck(p)
  \/ EnsureRecheck
  \/ FetchFail
  \/ ErrPauseDone
  \/ \E i \in Task : TaskDlqRecheck(i)

Outage == RedisDown \/ RedisUp

Shutdown == Signal \/ Exit

\* retries and dead-lettering, with the connection going down and up
Next == Produce \/ Consume \/ NotReady \/ Outage

Spec == Init /\ [][Next]_vars

\* message expiry: the clock advances, the store answers
NextTtl == (\E p \in 1..NTtlProducers : ProduceCall(p, {ValidItem})) \/ Consume \/ Tick

SpecTtl == Init /\ [][NextTtl]_vars

\* shutdown by signal
NextShutdown == Produce \/ Consume \/ NotReady \/ Shutdown

SpecShutdown == Init /\ [][NextShutdown]_vars

\* admission: any raw item, the connection going down and up
NextAdmit == ProduceAny \/ Consume \/ NotReady \/ Outage

SpecAdmit == Init /\ [][NextAdmit]_vars

\* the worker pool on a main queue that holds PoolSize messages
SpecPool == InitPool /\ [][Consume]_vars

\* the status reporter called while messages are admitted, consumed and
\* retried and the connection goes down and up
NextStatus == Next \/ Status

SpecStatus == Init /\ [][NextStatus]_vars

\* the consumer's steps that only a connection that is not ready enables
ConsumerNotReady ==
  \/ EnsureRecheck
  \/ FetchFail
  \/ ErrPauseDone
  \/ \E i \in Task : TaskDlqRecheck(i)

\* The consumer loop under its scheduling: timers fire, promise
\* continuations run, and every command sent to the store settles (a blpop
\* returns within its 1 s timeout; on a lost connection it is rejected, at
\* the latest after maxRetriesPerRequest reconnections, lines 25-32).  So
\* whenever the consumer has a step to take it takes one: weak fairness of
\* the consumer's steps taken together.
SpecLoop == Init /\ [][Next]_vars /\ WF_vars(Consume \/ ConsumerNotReady)

\* One message more than a chunk holds is waiting when the service starts.
\* The first and one other were admitted at StartTime; the others were
\* admitted more than ten minutes before (the clock's zero is TickMs before
\* the start).
ChunkedSize == BATCH_SIZE + 1

StaleTime == StartTime - tenMinutesInMs - 1

InitChunks ==
  \E other \in 2..ChunkedSize :
    LET live == {1, other} IN
    /\ InitWith([i \in 1..ChunkedSize |->
                   Message(i, IF i \in live THEN StartTime ELSE StaleTime, 0)],
                1..ChunkedSize)

\* a cycle of two chunks, the connection going down and up
NextChunks == Consume \/ ConsumerNotReady \/ Outage

SpecChunks == InitChunks /\ [][NextChunks]_vars

\* admission, consumption and retries while the store answers and the clock
\* advances: no outage, no shutdown
NextSteady == Produce \/ Consume \/ Tick

SpecSteady == Init /\ [][NextSteady]_vars

\* the main queue holds, when the service starts, a record that is no JSON
\* text and behind it a message admitted at StartTime
ForeignId == NProducers + 1

InitForeign ==
  InitWith(<<Unparseable(ForeignId), Message(1, StartTime, 0)>>, 1..ForeignId)

SpecForeign == InitForeign /\ [][NextChunks]_vars

\* the most messages one cycle can fetch (lines 232, 246)
FetchLimit == BATCH_SIZE * CONCURRENT_BATCHES

\* the main queue holds up to one message more than a cycle can fetch when
\* the service starts; their ids follow the producers'
MaxQueued == FetchLimit + 1

InitFetch ==
  \E n \in 0..MaxQueued :
    InitWith([i \in 1..n |-> Message(NProducers + i, StartTime, 0)],
             1..(NProducers + n))

\* the fetch of a cycle (lines 243-259), messages being admitted meanwhile
Fetch ==
  \/ StartCycle
  \/ \E s \in Streams : StreamPop(s)
  \/ \E s \in Streams : StreamTimeout(s)
  \/ FetchDone

SpecFetch == InitFetch /\ [][Produce \/ Fetch]_vars

(***************************************************************************)
(* Where a message is.                                                     *)
(***************************************************************************)
Ids == DOMAIN outcome

CountMain(m) == Cardinality({i \in DOMAIN mainQ : mainQ[i].id = m})

CountDlq(m) == Cardinality({i \in DOMAIN dlq : dlq[i].originalMessage.id = m})

\* popped and not yet through its callback
Held(m) == m \in InFlight

(***************************************************************************)
(* C1: every processing failure raises retryCount by exactly 1 (a record   *)
(* of the main queue carries as many retries as the message has failed),   *)
(* and once the count exceeds MAX_RETRIES and retryMessage has returned    *)
(* the message is exactly once in the dead-letter queue and not in the     *)
(* main queue.                                                             *)
(***************************************************************************)
C1_QuarantinedOnce ==
  \A m \in Ids :
    /\ \A i \in DOMAIN mainQ : mainQ[i].id = m => mainQ[i].retryCount = fails[m]
    /\ (fails[m] > MAX_RETRIES /\ ~Held(m)) => (CountDlq(m) = 1 /\ CountMain(m) = 0)

(***************************************************************************)
(* C2 as stated: after its 3rd failure a message is in the dead-letter     *)
(* queue and not requeued.                                                 *)
(***************************************************************************)
C2_DeadLetterAfterThird ==
  \A m \in Ids :
    (fails[m] = MAX_RETRIES /\ ~Held(m) /\ outcome[m] \notin {"dropped", "fetchlost"})
      => (CountDlq(m) = 1 /\ CountMain(m) = 0)

(***************************************************************************)
(* C2 amended: retry exhaustion is reached at the 4th failure, not the     *)
(* 3rd.  After each of its first MAX_RETRIES failures retryMessage takes   *)
(* the requeue branch (the record pushed carries retryCount 1, 2, 3); only *)
(* the failure number MAX_RETRIES + 1 hands the message to the dead-letter *)
(* queue as "Max retries exceeded", and a message recorded there under     *)
(* that reason has no copy in the main queue.                              *)
(***************************************************************************)
C2_DeadLetterAfterFourth ==
  /\ \A i \in DOMAIN tasks :
       LET t == tasks[i] IN
       /\ t.pc = "delay" => (t.retryCount = fails[t.msg.id] /\ t.retryCount <= MAX_RETRIES)
       /\ t.error = "Max retries exceeded" => fails[t.msg.id] = MAX_RETRIES + 1
       /\ (t.result = "threw" /\ fails[t.msg.id] <= MAX_RETRIES)
            => t.error # "Max retries exceeded"
  /\ \A k \in DOMAIN dlq :
       dlq[k].error = "Max retries exceeded"
         => /\ fails[dlq[k].originalMessage.id] = MAX_RETRIES + 1
            /\ CountMain(dlq[k].originalMessage.id) = 0
  /\ \A k \in DOMAIN mainQ : mainQ[k].retryCount <= MAX_RETRIES

\* a message that failed 4 times sits in the dead-letter queue for retry
\* exhaustion, and the main queue is empty
C2_Witness ==
  /\ mainQ = <<>>
  /\ \E k \in DOMAIN dlq :
       /\ dlq[k].error = "Max retries exceeded"
       /\ fails[dlq[k].originalMessage.id] = MAX_RETRIES + 1

(***************************************************************************)
(* C3: a message whose age exceeds ten minutes when processMessage looks   *)
(* at it gets the outcome "expired", the downstream collaborator is not    *)
(* called, its callback ends there, and the message is afterwards in       *)
(* neither list.                                                           *)
(***************************************************************************)
C3_ExpiredDropped ==
  /\ \A i \in DOMAIN tasks :
       LET t == tasks[i] IN
       (t.result # "none" /\ t.at - t.msg.timestamp > tenMinutesInMs)
         => (t.result = "expired" /\ ~t.called /\ t.pc = "done")
  /\ \A m \in Ids :
       outcome[m] = "expired" => (CountMain(m) = 0 /\ CountDlq(m) = 0 /\ ~Held(m))

\* a message that failed once, was requeued and was then found expired
C3_Witness ==
  \E i \in DOMAIN tasks :
    /\ tasks[i].result = "expired"
    /\ tasks[i].msg.retryCount > 0
    /\ outcome[tasks[i].msg.id] = "expired"

(***************************************************************************)
(* C4: after shutdown every admitted message is still in a list, or was    *)
(* finished (applied or expired) before the exit.                          *)
(***************************************************************************)
C4_NoLossOnShutdown ==
  sig = "exited" =>
    \A m \in Ids :
      prod[m].pc = "returned" =>
        \/ CountMain(m) + CountDlq(m) > 0
        \/ outcome[m] \in {"success", "expired", "dropped", "fetchlost"}

(***************************************************************************)
(* C5: a store failure is no reason to drop a message: a message whose     *)
(* processing failed and that the consumer no longer holds is in the main  *)
(* queue or in the dead-letter queue.                                      *)
(***************************************************************************)
C5_StoreFailureKeepsMessage ==
  \A m \in Ids :
    (fails[m] > 0 /\ ~Held(m) /\ outcome[m] \notin {"success", "expired", "fetchlost"})
      => CountMain(m) + CountDlq(m) > 0

(***************************************************************************)
(* C9: before anything is consumed, the main queue holds exactly one       *)
(* record per produceMessage call that returned, with retryCount 0, and    *)
(* none for a call that threw or has not pushed yet.                       *)
(***************************************************************************)
NothingConsumed ==
  /\ \A m \in Ids : outcome[m] = "none"
  /\ tasks = <<>> /\ chunks = <<>>
  /\ \A s \in Streams : batches[s] = <<>>

C9_OneRecordPerSubmission ==
  NothingConsumed =>
    /\ Len(mainQ) = Cardinality({p \in Producers : prod[p].pc = "returned"})
    /\ \A p \in Producers :
         CountMain(p) = (IF prod[p].pc = "returned" THEN 1 ELSE 0)
    /\ \A i \in DOMAIN mainQ : mainQ[i].retryCount = 0
    /\ \A p \in Producers : prod[p].pc = "returned" => validateMessage(prod[p].raw)

\* every submission was a valid item and returned
C9_Witness ==
  /\ NothingConsumed
  /\ \A p \in Producers : prod[p].pc = "returned"
  /\ Len(mainQ) = NProducers
  /\ \E i \in DOMAIN mainQ : mainQ[i].timestamp >= StartTime

(***************************************************************************)
(* C6: when calculateIsToComplex returns true the job goes from active to  *)
(* delayed with its data (metadata.retryCount included) unchanged; while   *)
(* that answer stands the job is delayed or waiting again, never           *)
(* completed, failed or removed.                                           *)
(***************************************************************************)
QuotaDeferred(job) ==
  /\ job.asked.kind = "data"
  /\ calculateIsToComplex(job.asked).value

AuthRejected(job) ==
  /\ job.asked.kind = "reject"
  /\ \/ "Not Authenticated" \in job.asked.message
     \/ "Invalid or expired token" \in job.asked.message

C7_AuthErrorDrops ==
  \A j \in JobIds :
    AuthRejected(jobs[j]) =>
      /\ jobs[j].state = "removed"
      /\ jobs[j].ret = "authfailed"
      /\ dlq = <<>> /\ mainQ = <<>>


(***************************************************************************)
(* C8: every admission path enqueues only items that pass validateMessage: *)
(* each record of the main queue and each job the Bull queue holds has a   *)
(* payload with token, board id, item id and non-empty text.               *)
(***************************************************************************)
C8_OnlyValidEnqueued ==
  /\ \A p \in Producers : prod[p].pc = "returned" => validateMessage(prod[p].raw)
  /\ \A j \in JobIds :
       jobs[j].state \in {"waiting", "active", "delayed"}
         => validateMessage(jobs[j].data.payload)

(***************************************************************************)
(* C10: at most CONCURRENT_MESSAGES messages are being processed at any    *)
(* moment, by the callbacks of a chunk and by the Bull workers.            *)
(***************************************************************************)
C10_PoolBounded ==
  /\ Cardinality({i \in DOMAIN tasks : tasks[i].pc = "process"}) <= CONCURRENT_MESSAGES
  /\ Cardinality(Active) <= CONCURRENT_MESSAGES

(***************************************************************************)
(* C11: whenever a message is pushed to the dead-letter queue, the record's *)
(* error is the message of the error its last processMessage call threw,   *)
(* and its originalMessage is the message as it was popped.                *)
(***************************************************************************)
C11_RecordsTriggeringFailure ==
  [][\A i \in DOMAIN tasks :
       (/\ tasks[i].pc \in {"dlqstart", "dlqwait"}
        /\ i \in DOMAIN tasks' /\ tasks'[i].pc = "done"
        /\ Len(dlq') = Len(dlq) + 1)
         => /\ dlq'[Len(dlq')].error = tasks[i].thrown
            /\ dlq'[Len(dlq')].originalMessage = tasks[i].msg]_vars

(***************************************************************************)
(* C12: a fetch cycle returns at most BATCH_SIZE * CONCURRENT_BATCHES      *)
(* messages; each of them was the head of the main queue when its blpop    *)
(* was served and left the queue at that moment, so no message is returned *)
(* twice; blpops that time out on the empty queue add nothing, and a cycle *)
(* whose blpops all timed out ends normally with no message.               *)
(***************************************************************************)
RECURSIVE Concat(_)
Concat(ss) == IF ss = <<>> THEN <<>> ELSE Head(ss) \o Concat(Tail(ss))

\* the messages the consumer holds, in the order of allMessages
Fetched ==
  Flat(batches) \o [i \in DOMAIN tasks |-> tasks[i].msg] \o Concat(chunks)

C12_FetchBounded ==
  /\ [](/\ Len(Fetched) <= FetchLimit
        /\ \A s \in Streams : Len(batches[s]) <= streamI[s] /\ streamI[s] <= BATCH_SIZE
        /\ \A i, k \in DOMAIN Fetched : i # k => Fetched[i].id # Fetched[k].id
        /\ \A i \in DOMAIN Fetched : CountMain(Fetched[i].id) = 0
        /\ cpc # "errpause")
  /\ [][/\ \A s \in Streams :
             batches'[s] # batches[s] /\ cpc' = "fetch"
               => /\ mainQ # <<>>
                  /\ batches'[s] = Append(batches[s], Head(mainQ))
                  /\ mainQ' = Tail(mainQ)
        /\ (cpc = "fetch" /\ cpc' # "fetch")
             => /\ Fetched' = Flat(batches)
                /\ cpc' = (IF Flat(batches) = <<>> THEN "sched" ELSE "chunk")]_vars

\* a cycle returned with BATCH_SIZE * CONCURRENT_BATCHES messages and left
\* one in the main queue
C12_Witness ==
  /\ cpc = "chunk"
  /\ Len(Fetched) = FetchLimit
  /\ Len(tasks) = BATCH_SIZE
  /\ mainQ # <<>>

(***************************************************************************)
(* C13: getQueueStatus is read-only: none of its steps changes the main    *)
(* queue or the dead-letter queue, whatever is pushed and popped between   *)
(* them, and the lengths it reports are non-negative (and no larger than   *)
(* the number of messages admitted).                                       *)
(***************************************************************************)
C13_StatusReadOnly ==
  /\ [](/\ stat.queueLength >= 0 /\ stat.queueLength <= NProducers
        /\ stat.dlqLength >= 0 /\ stat.dlqLength <= NProducers)
  /\ [][stat' # stat => (mainQ' = mainQ /\ dlq' = dlq)]_vars

\* a call returned lengths of which the first is stale: it read one message
\* in the main queue that has since moved to the dead-letter queue
C13_Witness ==
  /\ stat.pc = "returned"
  /\ stat.queueLength = 1
  /\ stat.dlqLength = 1
  /\ Len(mainQ) = 0

(***************************************************************************)
(* C14: every job added to the Bull queue eventually reaches a terminal    *)
(* state: completed (applied, or dropped as expired), removed on an        *)
(* authentication failure, or failed for good after its attempts; no job   *)
(* goes round between deferral and the queue forever.                      *)
(***************************************************************************)
C14_EventuallyTerminal ==
  \A j \in JobIds :
    [](jobs[j].state = "waiting"
         => <>(jobs[j].state \in {"completed", "removed", "failed"}))

(***************************************************************************)
(* C15: a failure while one message is handled (processMessage throws, the *)
(* requeue rpush rejects, the dead-letter push fails) never aborts the     *)
(* chunk: the chunk ends only by all its callbacks having ended, each      *)
(* message with an outcome, never by a rejection; the chunks not started   *)
(* are kept, and after the pacing delay the next of them starts.           *)
(***************************************************************************)
C15_FailureKeepsBatch ==
  [][/\ cpc = "chunk" =>
          /\ cpc' \in {"chunk", "pace"}
          /\ chunks' = chunks
          /\ Len(tasks') = Len(tasks) \/ cpc' = "pace"
          /\ cpc' = "pace" =>
               \A i \in DOMAIN tasks :
                 /\ tasks[i].pc = "done"
                 /\ outcome[tasks[i].msg.id] \in
                      {"success", "expired", "requeued", "deadletter", "dropped"}
     /\ (cpc = "pace" /\ chunks # <<>> /\ cpc' # cpc) =>
          /\ cpc' = "chunk"
          /\ tasks' = StartChunk(Head(chunks))
          /\ chunks' = Tail(chunks)]_vars

\* the first chunk held a message whose requeue and dead-letter push both
\* failed and another that was applied; the second chunk is running
C15_Witness ==
  /\ cpc = "chunk"
  /\ Len(tasks) = 1
  /\ outcome[tasks[1].msg.id] = "none"
  /\ \E m, o \in Ids :
       /\ outcome[m] = "dropped" /\ fails[m] = 1
       /\ outcome[o] = "success" /\ fails[o] = 0

(***************************************************************************)
(* C16: the consumer loop never halts: a cycle that threw (connection not  *)
(* ready at its start, or a rejected blpop) is followed by a new cycle,    *)
(* and so is a cycle that ended normally; cycles are started for ever.     *)
(***************************************************************************)
C16_LoopResumes ==
  /\ (cpc = "errpause") ~> (cpc \in {"ensure", "fetch"})
  /\ (cpc = "pace") ~> (cpc \in {"ensure", "fetch"})
  /\ []<>(cpc = "sched")
  /\ (cpc = "sched") ~> (cpc \in {"ensure", "fetch"})

\* a cycle lost its messages to a rejected blpop and a new fetch is running
C16_Witness ==
  /\ cpc = "fetch"
  /\ \E m \in Ids : outcome[m] = "fetchlost"

(***************************************************************************)
(* C17: every step leaves the main queue as it is, removes its head, or    *)
(* appends one record at its tail; a requeue appends the retried message   *)
(* behind everything the main queue holds at that moment.                  *)
(***************************************************************************)
C17_TailInHeadOut ==
  [][/\ \/ mainQ' = mainQ
        \/ mainQ # <<>> /\ mainQ' = Tail(mainQ)
        \/ /\ Len(mainQ') = Len(mainQ) + 1
           /\ SubSeq(mainQ', 1, Len(mainQ)) = mainQ
     /\ \A i \in DOMAIN tasks :
          (tasks[i].pc = "delay" /\ i \in DOMAIN tasks' /\ tasks'[i].pc = "done")
            => mainQ' = Append(mainQ, [tasks[i].msg EXCEPT !.retryCount = tasks[i].retryCount])
    ]_vars

\* a retried message stands behind a message admitted during its delay
C17_Witness ==
  \E i, k \in DOMAIN mainQ :
    /\ i < k
    /\ mainQ[i].retryCount = 0
    /\ mainQ[k].retryCount > 0
    /\ outcome[mainQ[k].id] = "requeued"

(***************************************************************************)
(* C18: the dead-letter queue only grows: across every step its previous   *)
(* contents are a prefix of its new contents, and a step adds at most one  *)
(* record.                                                                 *)
(***************************************************************************)
C18_DlqOnlyGrows ==
  [][\/ dlq' = dlq
     \/ /\ Len(dlq') = Len(dlq) + 1
        /\ SubSeq(dlq', 1, Len(dlq)) = dlq]_vars

\* a second record was appended behind the first while messages were
\* fetched and the status was read
C18_Witness ==
  /\ Len(dlq) = 2
  /\ dlq[1].originalMessage.id # dlq[2].originalMessage.id
  /\ stat.pc = "returned" /\ stat.dlqLength = 1

(***************************************************************************)
(* C19: a job whose budget check was answered with figures is deferred     *)
(* exactly when the remaining budget is below 1000000 or the cost of the   *)
(* operation is above 5000000; with the remaining budget equal to 1000000  *)
(* and the cost equal to 5000000 it goes on to processMessage.             *)
(***************************************************************************)
C19_DeferExactlyOverBudget ==
  \A j \in JobIds :
    jobs[j].asked.kind = "data" =>
      /\ (jobs[j].ret = "delayed")
           <=> (jobs[j].asked.before < 1000000 \/ jobs[j].asked.query > 5000000)
      /\ (jobs[j].asked.before = 1000000 /\ jobs[j].asked.query = 5000000)
           => /\ jobs[j].ret \in {"none", "success", "expired", "threw"}
              /\ jobs[j].state # "removed"

\* a job answered with both figures on their marks was applied, another was
\* deferred for a remaining budget of 999999
C19_Witness ==
  \E j, k \in JobIds :
    /\ jobs[j].asked.kind = "data"
    /\ jobs[j].asked.before = 1000000 /\ jobs[j].asked.query = 5000000
    /\ jobs[j].state = "completed" /\ jobs[j].ret = "success"
    /\ jobs[k].asked.kind = "data"
    /\ jobs[k].asked.before = 999999
    /\ jobs[k].state = "delayed" /\ jobs[k].ret = "delayed"

(***************************************************************************)
(* C20: when calculateIsToComplex fails with anything but an               *)
(* authentication error (the API answers with errors, or the call rejects  *)
(* for another reason) the job goes from active to delayed for 60 s with   *)
(* its data (metadata.retryCount included) unchanged; while that answer    *)
(* stands the job is delayed or waiting again, never failed, removed or    *)
(* completed, and nothing is written to the dead-letter queue.             *)
(***************************************************************************)
OtherFailure(job) ==
  /\ job.asked.kind \in {"errors", "reject"}
  /\ ~AuthRejected(job)

HeldCount(m) ==
  LET waiting == Flat(batches) \o Concat(chunks)
  IN Cardinality({i \in DOMAIN waiting : waiting[i].id = m})
       + Cardinality({i \in DOMAIN tasks : tasks[i].pc # "done" /\ tasks[i].msg.id = m})

Terminated(m) == outcome[m] \in {"success", "expired"}

Places(m) ==
  CountMain(m) + HeldCount(m) + CountDlq(m) + (IF Terminated(m) THEN 1 ELSE 0)

C21_ExactlyOnePlace ==
  \A m \in Ids :
    Places(m) = (IF prod[m].pc = "returned" THEN 1 ELSE 0)

\* one message is in the dead-letter queue while another waits out a retry
\* delay in the consumer
C21_Witness ==
  \E m, o \in Ids :
    /\ CountDlq(m) = 1
    /\ \E i \in DOMAIN tasks : tasks[i].msg.id = o /\ tasks[i].pc = "delay"
    /\ CountMain(o) = 0

(***************************************************************************)
(* C22: every record of the main queue has a retryCount from 0 to          *)
(* MAX_RETRIES, and the originalMessage of a dead-letter record written    *)
(* for retry exhaustion carries the retryCount the message was popped      *)
(* with, MAX_RETRIES, not the incremented count that exceeded it.          *)
(***************************************************************************)
C22_RetryCountRange ==
  /\ \A k \in DOMAIN mainQ :
       mainQ[k].retryCount >= 0 /\ mainQ[k].retryCount <= MAX_RETRIES
  /\ \A k \in DOMAIN dlq :
       dlq[k].error = "Max retries exceeded"
         => dlq[k].originalMessage.retryCount = MAX_RETRIES

\* one message was dead-lettered for retry exhaustion while another stands
\* in the main queue with its last retry ahead
C22_Witness ==
  /\ \E k \in DOMAIN dlq :
       /\ dlq[k].error = "Max retries exceeded"
       /\ dlq[k].originalMessage.retryCount = MAX_RETRIES
  /\ \E k \in DOMAIN mainQ : mainQ[k].retryCount = MAX_RETRIES

(***************************************************************************)
(* C23: the retry delay is awaited inside the chunk: a message waiting out *)
(* its delay is in neither queue, and the chunk is left (for the pacing    *)
(* delay, the next chunk and the next cycle) only when every message of it *)
(* whose processing failed has been requeued or dead-lettered.             *)
(***************************************************************************)
C23_DelayInsideChunk ==
  /\ [](\A i \in DOMAIN tasks :
          tasks[i].pc = "delay"
            => /\ CountMain(tasks[i].msg.id) = 0
               /\ CountDlq(tasks[i].msg.id) = 0
               /\ cpc = "chunk")
  /\ [][(cpc = "chunk" /\ cpc' # "chunk") =>
          \A i \in DOMAIN tasks :
            tasks[i].result = "threw"
              => /\ tasks[i].pc = "done"
                 /\ outcome[tasks[i].msg.id] \in {"requeued", "deadletter"}]_vars

(***************************************************************************)
(* C24: a record of the main queue that is no JSON text fails once and is  *)
(* then in the dead-letter queue, exactly once, with the parse error as    *)
(* the reason; it is never pushed back to the main queue and never waits   *)
(* out a retry delay.                                                      *)
(***************************************************************************)
C24_UnparseableDeadLettered ==
  LET m == ForeignId IN
  /\ fails[m] <= 1
  /\ \A i \in DOMAIN tasks : tasks[i].msg.id = m => tasks[i].pc # "delay"
  /\ fails[m] = 0 => CountDlq(m) = 0
  /\ (fails[m] = 1 /\ ~Held(m)) =>
       /\ CountMain(m) = 0
       /\ CountDlq(m) = 1
       /\ \A k \in DOMAIN dlq :
            dlq[k].originalMessage.id = m
              => dlq[k].error = ParseError /\ dlq[k].originalMessage = Unparseable(m)

====
